---------------------------- MODULE Spec2Model ----------------------------
(***************************************************************************)
(* Pix subscription renewal of the whaticket backend and checkout page:    *)
(*   backend/src/controllers/SubscriptionController.ts                     *)
(*       createSubscription, webhook, checkPaymentStatus                   *)
(*   frontend/src/components/CheckoutPage/CheckoutSuccess/CheckoutSuccess.js *)
(*       the status poller of the checkout page                            *)
(*                                                                         *)
(* Time is counted in hours since an epoch, in UTC.  A stored due date is  *)
(* a calendar day (the 'YYYY-MM-DD' text the controller writes), counted   *)
(* in days since the same epoch.                                           *)
(***************************************************************************)
EXTENDS Integers, Sequences, FiniteSets, TLC

VARIABLES
    zone,       \* the time zone of the server process
    now,        \* the server clock, hours since the epoch (UTC)
    company,    \* table Company: id -> row
    invoice,    \* table Invoices: id -> row
    pay,        \* the gateway's payments: id -> [status, ref]
    req,        \* the webhook / checkPaymentStatus requests in progress
    faults,     \* persistence or gateway calls that have thrown so far
    confirmed,  \* per invoice: invoice.update calls that set it 'paid'
    events,     \* per invoice: CONCLUIDA events emitted for it
    calc,       \* one evaluation of the due-date computation
    create,     \* one createSubscription request and its answer
    poller,     \* the checkout page's poller
    hook        \* per webhook request: its req.params.type and req.body

vars == <<zone, now, company, invoice, pay, req, faults, confirmed, events,
          calc, create, poller, hook>>

-----------------------------------------------------------------------------
(* Dates *)

HoursPerDay == 24
ExtensionDays == 30

\* A zone is [before, after, at]: the local offset from UTC in hours is
\* `before` up to the instant `at` and `after` from then on.
Offset(t, z) == IF t < z.at THEN z.before ELSE z.after

\* Date.prototype.getDate and friends read local time.
LocalTime(t, z) == t + Offset(t, z)

\* The instant of a local time; a local time the transition skips is read
\* with the offset in force before the transition.
UTCOfLocal(w, z) ==
    LET t1 == w - z.before
        t2 == w - z.after
    IN  IF t1 < z.at THEN t1 ELSE IF t2 >= z.at THEN t2 ELSE t1

\* new Date('YYYY-MM-DD'): midnight UTC of that day.
ParseDate(day) == day * HoursPerDay

\* d.setDate(d.getDate() + n): n days later on the local calendar and clock.
SetDatePlus(t, n, z) == UTCOfLocal(LocalTime(t, z) + n * HoursPerDay, z)

\* d.toISOString().split("T")[0]: the UTC calendar day.
ISODate(t) == t \div HoursPerDay

\* webhook, lines 207-215.
WebhookNewDueDate(dueDate, today, z) ==
    LET currentDueDate == ParseDate(dueDate)
        baseDate == IF currentDueDate < today THEN today ELSE currentDueDate
        expiresAt == SetDatePlus(baseDate, ExtensionDays, z)
    IN  ISODate(expiresAt)

\* checkPaymentStatus, lines 290-298.
PollNewDueDate(dueDate, today, z) ==
    LET currentDueDate == ParseDate(dueDate)
        baseDate == IF currentDueDate < today THEN today ELSE currentDueDate
        expiresAt == SetDatePlus(baseDate, ExtensionDays, z)
    IN  ISODate(expiresAt)

-----------------------------------------------------------------------------
(* The records the confirmation paths read and write *)

Zones ==
    { [name |-> "America/Sao_Paulo", before |-> -3, after |-> -3, at |-> 0],
      [name |-> "America/New_York",  before |-> -5, after |-> -4, at |-> 487] }

Reqs == {"r1", "r2"}

Companies == {1, 2, 3}
InvoiceRefs == {1, 2, 3}
PaymentIds == {1, 2, 3, 4}
\* The payment ids requests name: 5 is an id the gateway does not know.
RequestedPaymentIds == PaymentIds \cup {5}

\* invoice.value as the database returns it: a number, a numeric text (the
\* driver's answer for a DECIMAL column), some other text, or null; n counts
\* cents.
Num(n) == [t |-> "number", n |-> n]

\* The plans that exist (table Plan is only read).
Plans == {1}

\* Company 1 is overdue, company 2 is not and names a plan that is gone;
\* company 3 has been removed.
InitCompany ==
    [c \in Companies |->
        [exists |-> c # 3,
         dueDate |-> IF c = 1 THEN 5 ELSE 12,
         planId |-> c,
         document |-> IF c = 1 THEN 11 ELSE 14]]

\* Invoice 1 is company 1's; invoice 2 still names company 3; no invoice 3.
InitInvoice ==
    [i \in InvoiceRefs |->
        [exists |-> i # 3,
         companyId |-> IF i = 1 THEN 1 ELSE 3,
         value |-> Num(4990),
         status |-> "pending",
         paymentDate |-> 0,
         lastStatus |-> "absent"]]

\* Payments 1 to 3 carry invoices 1 to 3 as their external reference, and
\* payment 4 invoice 1 again.  Payment 1 awaits the payer; the gateway has
\* approved payments 2 and 3 and rejected payment 4.
InitPay ==
    [p \in PaymentIds |->
        [status |-> CASE p = 1 -> "pending" [] p = 4 -> "rejected"
                      [] OTHER -> "approved",
         ref |-> IF p = 4 THEN 1 ELSE p]]

Now0 == 252
TickHours == 72
MaxTicks == 1
MaxFaults == 1

NoCompany == [id |-> 0, dueDate |-> 0]

NoResponse ==
    [code |-> 0, ok |-> "absent", status |-> "absent", success |-> "absent",
     company |-> NoCompany, message |-> "absent"]

\* res.json({ ok: true })
AckResponse == [NoResponse EXCEPT !.code = 200, !.ok = "true"]

\* res.json({ status, success: true, message: "... anteriormente!" })
ProcessedResponse(status) ==
    [NoResponse EXCEPT !.code = 200, !.status = status, !.success = "true",
                       !.message = "Pagamento ja foi processado anteriormente!"]

\* res.json({ status, company, success: true, message })
ApprovedResponse(status, c) ==
    [NoResponse EXCEPT !.code = 200, !.status = status, !.success = "true",
                       !.company = c,
                       !.message = "Pagamento aprovado com sucesso!"]

\* res.json({ status, success: false })
NotApprovedResponse(status) ==
    [NoResponse EXCEPT !.code = 200, !.status = status, !.success = "false"]

\* throw new AppError("Erro ao verificar status do pagamento", 500)
ErrorResponse ==
    [NoResponse EXCEPT !.code = 500,
                       !.message = "Erro ao verificar status do pagamento"]

IdleReq ==
    [kind |-> "none", pc |-> "idle", paymentId |-> 0, status |-> "absent",
     ref |-> 0, companyId |-> 0, date |-> 0, moved |-> FALSE,
     response |-> NoResponse]

\* The handler returns: its locals are gone, its answer stays.
Finish(r, resp) ==
    req' = [req EXCEPT ![r] = [IdleReq EXCEPT !.kind = req[r].kind,
                                              !.pc = "done",
                                              !.response = resp]]

\* The catch block of each handler: the webhook answers { ok: true }, the
\* poll raises AppError 500.
Caught(r) ==
    Finish(r, IF req[r].kind = "webhook" THEN AckResponse ELSE ErrorResponse)

\* The handler falls out of its nested ifs to its last return.
FallThrough(r) ==
    Finish(r, IF req[r].kind = "webhook" THEN AckResponse
              ELSE NotApprovedResponse(req[r].status))

\* A call to the gateway or the database may throw.
Throws(r) ==
    /\ faults < MaxFaults
    /\ faults' = faults + 1
    /\ Caught(r)

-----------------------------------------------------------------------------
(* checkPaymentStatus and webhook, one action per await *)

ServerIdle == UNCHANGED <<calc, create, poller, hook>>

\* GET /subscription/check/:paymentId arrives.
CheckPaymentStatus(r, paymentId) ==
    /\ req[r].pc \in {"idle", "done"}
    /\ req' = [req EXCEPT ![r] = [IdleReq EXCEPT !.kind = "poll", !.pc = "get",
                                                 !.paymentId = paymentId]]
    /\ UNCHANGED <<zone, now, company, invoice, pay, faults, confirmed,
                   events>>
    /\ ServerIdle

WebhookTypes == {"mercadopago", "stripe", "undefined"}
WebhookActions == {"payment.updated", "payment.created", "payment.deleted"}
\* req.body.data: missing, or { id }, where id 0 stands for a missing id.
WebhookData ==
    {[present |-> FALSE, id |-> 0]}
        \cup {[present |-> TRUE, id |-> p] : p \in {0} \cup RequestedPaymentIds}

\* The notifications tried: every payload under mercadopago/payment.updated,
\* and one payload (an approved payment) under every type and action.
WebhookRequests ==
    {w \in [type : WebhookTypes, action : WebhookActions, data : WebhookData] :
        \/ w.type = "mercadopago" /\ w.action = "payment.updated"
        \/ w.data = [present |-> TRUE, id |-> 2]}

\* WebhookArrives without the test of the type route parameter.
WebhookAnyType(r, type, action, data) ==
    /\ req[r].pc \in {"idle", "done"}
    /\ LET arrived == [IdleReq EXCEPT !.kind = "webhook"]
           answered == [arrived EXCEPT !.pc = "done", !.response = AckResponse]
       IN  req' = [req EXCEPT ![r] =
                IF action \notin {"payment.updated", "payment.created"}
                THEN answered
                ELSE IF ~data.present THEN answered
                ELSE IF data.id = 0 THEN answered
                ELSE [arrived EXCEPT !.pc = "get", !.paymentId = data.id]]
    /\ UNCHANGED <<zone, now, company, invoice, pay, faults, confirmed,
                   events>>

\* Lines 167-181 of webhook, up to the await: the tests of type, action and
\* data.id.
WebhookArrives(r, type, action, data) ==
    /\ req[r].pc \in {"idle", "done"}
    /\ LET arrived == [IdleReq EXCEPT !.kind = "webhook"]
           answered == [arrived EXCEPT !.pc = "done", !.response = AckResponse]
       IN  req' = [req EXCEPT ![r] =
                IF type # "mercadopago" THEN answered
                ELSE IF action \notin {"payment.updated", "payment.created"}
                     THEN answered
                ELSE IF ~data.present THEN answered   \* TypeError, caught
                ELSE IF data.id = 0 THEN answered
                ELSE [arrived EXCEPT !.pc = "get", !.paymentId = data.id]]
    /\ UNCHANGED <<zone, now, company, invoice, pay, faults, confirmed,
                   events>>

\* POST /subscription/webhook/:type? arrives.
Webhook(r, type, action, data) ==
    /\ WebhookArrives(r, type, action, data)
    /\ ServerIdle

\* await payment.get({ id }) and the test of paymentInfo.status.
PaymentGet(r) ==
    /\ req[r].pc = "get"
    /\ LET p == req[r].paymentId IN
         \/ /\ p \notin PaymentIds
            /\ Caught(r)
            /\ UNCHANGED faults
         \/ Throws(r)
         \/ /\ p \in PaymentIds
            /\ UNCHANGED faults
            /\ IF pay[p].status = "approved"
               THEN req' = [req EXCEPT ![r] = [@ EXCEPT !.pc = "findInvoice",
                                                        !.status = pay[p].status,
                                                        !.ref = pay[p].ref]]
               ELSE Finish(r, IF req[r].kind = "webhook" THEN AckResponse
                              ELSE NotApprovedResponse(pay[p].status))
    /\ UNCHANGED <<zone, now, company, invoice, pay, confirmed, events>>
    /\ ServerIdle

\* FindInvoice without the test of invoice.status.
FindInvoiceNoPaidTest(r) ==
    /\ req[r].pc = "findInvoice"
    /\ \/ Throws(r)
       \/ /\ UNCHANGED faults
          /\ LET inv == invoice[req[r].ref] IN
               IF ~inv.exists THEN FallThrough(r)
               ELSE req' = [req EXCEPT ![r] = [@ EXCEPT !.pc = "findCompany",
                                                        !.companyId = inv.companyId]]
    /\ UNCHANGED <<zone, now, company, invoice, pay, confirmed, events>>
    /\ ServerIdle

\* await Invoices.findByPk(invoiceId), if (invoice), if (invoice.status === 'paid').
FindInvoice(r) ==
    /\ req[r].pc = "findInvoice"
    /\ \/ Throws(r)
       \/ /\ UNCHANGED faults
          /\ LET inv == invoice[req[r].ref] IN
               IF ~inv.exists THEN FallThrough(r)
               ELSE IF inv.status = "paid"
                    THEN Finish(r, ProcessedResponse(req[r].status))
               ELSE req' = [req EXCEPT ![r] = [@ EXCEPT !.pc = "findCompany",
                                                        !.companyId = inv.companyId]]
    /\ UNCHANGED <<zone, now, company, invoice, pay, confirmed, events>>
    /\ ServerIdle

\* FindCompany with invoice.update outside if (company).
FindCompanyPaysAnyway(r) ==
    /\ req[r].pc = "findCompany"
    /\ \/ /\ Throws(r)
          /\ UNCHANGED invoice
       \/ /\ UNCHANGED faults
          /\ LET c == company[req[r].companyId] IN
               IF ~c.exists
               THEN /\ invoice' = [invoice EXCEPT ![req[r].ref].status = "paid"]
                    /\ FallThrough(r)
               ELSE /\ UNCHANGED invoice
                    /\ req' = [req EXCEPT ![r] = [@ EXCEPT
                            !.pc = "updateCompany",
                            !.date = IF req[r].kind = "webhook"
                                     THEN WebhookNewDueDate(c.dueDate, now, zone)
                                     ELSE PollNewDueDate(c.dueDate, now, zone)]]
    /\ UNCHANGED <<zone, now, company, pay, confirmed, events>>
    /\ ServerIdle

\* await Company.findByPk(invoice.companyId), if (company), and the new date.
FindCompany(r) ==
    /\ req[r].pc = "findCompany"
    /\ \/ Throws(r)
       \/ /\ UNCHANGED faults
          /\ LET c == company[req[r].companyId] IN
               IF ~c.exists THEN FallThrough(r)
               ELSE req' = [req EXCEPT ![r] = [@ EXCEPT
                        !.pc = "updateCompany",
                        !.date = IF req[r].kind = "webhook"
                                 THEN WebhookNewDueDate(c.dueDate, now, zone)
                                 ELSE PollNewDueDate(c.dueDate, now, zone)]]
    /\ UNCHANGED <<zone, now, company, invoice, pay, confirmed, events>>
    /\ ServerIdle

\* CompanyUpdate with an update that names no row: every tenant gets the date.
CompanyUpdateEveryTenant(r) ==
    /\ req[r].pc = "updateCompany"
    /\ \/ /\ Throws(r)
          /\ UNCHANGED company
       \/ /\ UNCHANGED faults
          /\ company' = [c \in Companies |->
                            IF company[c].exists
                            THEN [company[c] EXCEPT !.dueDate = req[r].date]
                            ELSE company[c]]
          /\ req' = [req EXCEPT ![r].pc = "updateInvoice"]
    /\ UNCHANGED <<zone, now, invoice, pay, confirmed, events>>
    /\ ServerIdle

\* await company.update({ dueDate: date })
CompanyUpdate(r) ==
    /\ req[r].pc = "updateCompany"
    /\ \/ /\ Throws(r)
          /\ UNCHANGED company
       \/ /\ UNCHANGED faults
          /\ company' = [company EXCEPT ![req[r].companyId].dueDate = req[r].date]
          /\ req' = [req EXCEPT ![r].pc = "updateInvoice"]
    /\ UNCHANGED <<zone, now, invoice, pay, confirmed, events>>
    /\ ServerIdle

\* await invoice.update({ status: 'paid', paymentDate, lastStatus })
InvoiceUpdate(r) ==
    /\ req[r].pc = "updateInvoice"
    /\ \/ /\ Throws(r)
          /\ UNCHANGED <<invoice, confirmed>>
       \/ /\ UNCHANGED faults
          /\ invoice' = [invoice EXCEPT ![req[r].ref] =
                            [@ EXCEPT !.status = "paid", !.paymentDate = now,
                                      !.lastStatus = req[r].status]]
          /\ confirmed' = [confirmed EXCEPT ![req[r].ref] = @ + 1]
          /\ req' = [req EXCEPT ![r] = [@ EXCEPT
                        !.pc = "reload",
                        !.moved = (invoice[req[r].ref].status = "pending")]]
    /\ UNCHANGED <<zone, now, company, pay, events>>
    /\ ServerIdle

\* await company.reload(), then the poll's answer, or io.emit and the
\* webhook's answer.
CompanyReload(r) ==
    /\ req[r].pc = "reload"
    /\ \/ /\ Throws(r)
          /\ UNCHANGED events
       \/ /\ UNCHANGED faults
          /\ IF req[r].kind = "webhook"
             THEN /\ events' = [events EXCEPT ![req[r].ref] = @ + 1]
                  /\ Finish(r, AckResponse)
             ELSE /\ UNCHANGED events
                  /\ Finish(r, ApprovedResponse(req[r].status,
                        [id |-> req[r].companyId,
                         dueDate |-> company[req[r].companyId].dueDate]))
    /\ UNCHANGED <<zone, now, company, invoice, pay, confirmed>>
    /\ ServerIdle

\* The payer pays: the gateway approves the payment.
GatewayApprove(p) ==
    /\ pay[p].status = "pending"
    /\ pay' = [pay EXCEPT ![p].status = "approved"]
    /\ UNCHANGED <<zone, now, company, invoice, req, faults, confirmed,
                   events>>
    /\ ServerIdle

\* Time passes.
Tick ==
    /\ now + TickHours <= Now0 + MaxTicks * TickHours
    /\ now' = now + TickHours
    /\ UNCHANGED <<zone, company, invoice, pay, req, faults, confirmed,
                   events>>
    /\ ServerIdle

IdleCalc == [dueDate |-> 0, today |-> 0, entry |-> "none", date |-> 0]

NoGatewayRequest == [amount |-> 0, ref |-> 0, idType |-> "absent"]

IdleCreate ==
    [pc |-> "idle", user |-> 0, invoiceId |-> [t |-> "undefined", n |-> 0],
     code |-> 0, error |-> "absent", status |-> "absent",
     calls |-> 0, request |-> NoGatewayRequest]

\* No notification has arrived.
NoHook == [type |-> "none", action |-> "none",
           data |-> [present |-> FALSE, id |-> 0]]

IdleHook == [r \in Reqs |-> NoHook]

\* No checkout page is open.
IdlePoller ==
    [mounted |-> FALSE, interval |-> FALSE, isChecking |-> FALSE,
     attempts |-> 0, inflight |-> 0, toasts |-> {}, timeouts |-> {},
     location |-> "none", unsuccessful |-> 0, failed |-> 0]

Init ==
    /\ zone \in Zones
    /\ now = Now0
    /\ company = InitCompany
    /\ invoice = InitInvoice
    /\ pay = InitPay
    /\ req = [r \in Reqs |-> IdleReq]
    /\ faults = 0
    /\ confirmed = [i \in InvoiceRefs |-> 0]
    /\ events = [i \in InvoiceRefs |-> 0]
    /\ calc = IdleCalc
    /\ create = IdleCreate
    /\ poller = IdlePoller
    /\ hook = IdleHook

Next ==
    \/ \E r \in Reqs, p \in RequestedPaymentIds :
            CheckPaymentStatus(r, p)
    \/ \E r \in Reqs, w \in WebhookRequests : Webhook(r, w.type, w.action, w.data)
    \/ \E r \in Reqs : PaymentGet(r)
    \/ \E r \in Reqs : FindInvoice(r)
    \/ \E r \in Reqs : FindCompany(r)
    \/ \E r \in Reqs : CompanyUpdate(r)
    \/ \E r \in Reqs : InvoiceUpdate(r)
    \/ \E r \in Reqs : CompanyReload(r)
    \/ \E p \in PaymentIds : GatewayApprove(p)
    \/ Tick

Spec == Init /\ [][Next]_vars

-----------------------------------------------------------------------------
(* webhook with the notification of each request kept *)

\* POST /subscription/webhook/:type? arrives; its route parameter and body
\* are remembered.
WebhookLogged(r, w) ==
    /\ WebhookArrives(r, w.type, w.action, w.data)
    /\ hook' = [hook EXCEPT ![r] = w]
    /\ UNCHANGED <<calc, create, poller>>

NextWebhook ==
    \/ \E r \in Reqs, w \in WebhookRequests : WebhookLogged(r, w)
    \/ \E r \in Reqs : PaymentGet(r)
    \/ \E r \in Reqs : FindInvoice(r)
    \/ \E r \in Reqs : FindCompany(r)
    \/ \E r \in Reqs : CompanyUpdate(r)
    \/ \E r \in Reqs : InvoiceUpdate(r)
    \/ \E r \in Reqs : CompanyReload(r)
    \/ \E p \in PaymentIds : GatewayApprove(p)

SpecWebhook == Init /\ [][NextWebhook]_vars

-----------------------------------------------------------------------------
(* The due-date computation on its own *)

FirstDay == 18
LastDay == 21

CalcDays == FirstDay .. LastDay
CalcHours == FirstDay * HoursPerDay .. LastDay * HoursPerDay + (HoursPerDay - 1)

\* Lines 207-215 of webhook or 290-298 of checkPaymentStatus run once.
ComputeDate ==
    /\ calc.date = 0
    /\ calc' = [calc EXCEPT !.date =
                    IF calc.entry = "webhook"
                    THEN WebhookNewDueDate(calc.dueDate, calc.today, zone)
                    ELSE PollNewDueDate(calc.dueDate, calc.today, zone)]
    /\ UNCHANGED <<zone, now, company, invoice, pay, req, faults, confirmed,
                   events, create, poller, hook>>

InitExtend ==
    /\ zone \in Zones
    /\ calc \in [dueDate : CalcDays, today : CalcHours,
                 entry : {"webhook", "poll"}, date : {0}]
    /\ now = Now0
    /\ company = InitCompany
    /\ invoice = InitInvoice
    /\ pay = InitPay
    /\ req = [r \in Reqs |-> IdleReq]
    /\ faults = 0
    /\ confirmed = [i \in InvoiceRefs |-> 0]
    /\ events = [i \in InvoiceRefs |-> 0]
    /\ create = IdleCreate
    /\ poller = IdlePoller
    /\ hook = IdleHook

NextExtend == ComputeDate

SpecExtend == InitExtend /\ [][NextExtend]_vars

-----------------------------------------------------------------------------
(* createSubscription *)

\* Number(x) of a stored value: [nan, n].
ToNumber(v) ==
    CASE v.t = "number"  -> [nan |-> FALSE, n |-> v.n]
      [] v.t = "numtext" -> [nan |-> FALSE, n |-> v.n]
      [] v.t = "null"    -> [nan |-> FALSE, n |-> 0]
      [] OTHER           -> [nan |-> TRUE,  n |-> 0]

\* A test of truthiness, if (!invoiceId), in place of the Yup schema.
YupInvoiceIdTruthy(v) == v.t \in {"number", "numtext"} /\ v.n # 0

\* Yup.number().required(...) on req.body.invoiceId: undefined and null are
\* missing, a text is cast to a number and must not be NaN; any number passes.
YupInvoiceIdValid(v) == v.t \in {"number", "numtext"}

\* Invoices.findByPk(invoiceId)
InvoiceFound(v) == v.n \in InvoiceRefs /\ invoice[v.n].exists

\* new AppError(message, statusCode), as the outer catch rethrows it:
\* statusCode || 500.
Rejected(message, statusCode) ==
    [code |-> IF statusCode = 0 THEN 500 ELSE statusCode, error |-> message,
     status |-> "absent", calls |-> 0, request |-> NoGatewayRequest]

\* The payment.create request of lines 84-99.
GatewayRequest(v, c) ==
    [amount |-> ToNumber(invoice[v.n].value).n,
     ref |-> v.n,
     idType |-> IF company[c].document = 11 THEN "CPF" ELSE "CNPJ"]

\* What the gateway does with payment.create: it answers with an id, answers
\* without one, or throws with or without a status (status 0: none).
GatewayOutcomes ==
    {[kind |-> "created", status |-> 0], [kind |-> "noId", status |-> 0],
     [kind |-> "error", status |-> 0], [kind |-> "error", status |-> 400]}

\* Lines 82-143: the gateway call, its answer, and the inner catch.
CallGateway(v, c, gw) ==
    LET sent == GatewayRequest(v, c) IN
    IF gw.kind = "created"
    THEN [code |-> 200, error |-> "absent", status |-> "pending",
          calls |-> 1, request |-> sent]
    ELSE [Rejected("Erro ao gerar QR code PIX",
                   IF gw.kind = "error" THEN gw.status ELSE 0)
            EXCEPT !.calls = 1, !.request = sent]

\* CreateSubscriptionResult with the company looked up before the invoice's
\* owner is compared.
CreateSubscriptionCompanyFirst(user, v, gw) ==
    IF user = 0 THEN Rejected("Usuario nao autenticado", 401)
    ELSE IF ~YupInvoiceIdValid(v) THEN Rejected("ID da fatura e obrigatorio", 400)
    ELSE IF ~InvoiceFound(v) THEN Rejected("Fatura nao encontrada", 404)
    ELSE IF ~company[user].exists THEN Rejected("Empresa nao encontrada", 404)
    ELSE IF invoice[v.n].companyId # user
         THEN Rejected("Fatura nao pertence a empresa", 403)
    ELSE IF company[user].planId \notin Plans
         THEN Rejected("Plano nao encontrado", 404)
    ELSE IF ToNumber(invoice[v.n].value).nan \/ ToNumber(invoice[v.n].value).n <= 0
         THEN Rejected("Valor da fatura invalido ou menor/igual a zero", 400)
    ELSE CallGateway(v, user, gw)

\* Lines 22-155: the answer to POST /subscription for caller `user` (a company
\* id, 0 when the session carries none), body.invoiceId `v` and gateway
\* outcome `gw`.
CreateSubscriptionResult(user, v, gw) ==
    IF user = 0 THEN Rejected("Usuario nao autenticado", 401)
    ELSE IF ~YupInvoiceIdValid(v) THEN Rejected("ID da fatura e obrigatorio", 400)
    ELSE IF ~InvoiceFound(v) THEN Rejected("Fatura nao encontrada", 404)
    ELSE IF invoice[v.n].companyId # user
         THEN Rejected("Fatura nao pertence a empresa", 403)
    ELSE IF ~company[user].exists THEN Rejected("Empresa nao encontrada", 404)
    ELSE IF company[user].planId \notin Plans
         THEN Rejected("Plano nao encontrado", 404)
    ELSE IF ToNumber(invoice[v.n].value).nan \/ ToNumber(invoice[v.n].value).n <= 0
         THEN Rejected("Valor da fatura invalido ou menor/igual a zero", 400)
    ELSE CallGateway(v, user, gw)

Users == {0} \cup Companies

InvoiceIdInputs ==
    {[t |-> "undefined", n |-> 0], [t |-> "null", n |-> 0], [t |-> "text", n |-> 0],
     [t |-> "numtext", n |-> 1]}
        \cup {Num(n) : n \in {-1, 0} \cup InvoiceRefs}

\* POST /subscription
CreateSubscription(user, v, gw) ==
    /\ LET res == CreateSubscriptionResult(user, v, gw) IN
         create' = [pc |-> "done", user |-> user, invoiceId |-> v,
                    code |-> res.code, error |-> res.error, status |-> res.status,
                    calls |-> res.calls, request |-> res.request]
    /\ UNCHANGED <<zone, now, company, invoice, pay, req, faults, confirmed,
                   events, calc, poller, hook>>

InvoiceValues ==
    {Num(4990), Num(0), Num(-100), [t |-> "numtext", n |-> 4990],
     [t |-> "text", n |-> 0], [t |-> "null", n |-> 0]}

\* The tables createSubscription is tried on: those of Init with invoice 2
\* owned by any company and holding any value.
InitCreate ==
    /\ zone \in Zones
    /\ now = Now0
    /\ company = InitCompany
    /\ \E c \in Companies, v \in InvoiceValues :
          invoice = [InitInvoice EXCEPT ![2].companyId = c, ![2].value = v]
    /\ pay = InitPay
    /\ req = [r \in Reqs |-> IdleReq]
    /\ faults = 0
    /\ confirmed = [i \in InvoiceRefs |-> 0]
    /\ events = [i \in InvoiceRefs |-> 0]
    /\ calc = IdleCalc
    /\ create = IdleCreate
    /\ poller = IdlePoller
    /\ hook = IdleHook

NextCreate ==
    \E user \in Users, v \in InvoiceIdInputs, gw \in GatewayOutcomes :
        CreateSubscription(user, v, gw)

SpecCreate == InitCreate /\ [][NextCreate]_vars

-----------------------------------------------------------------------------
(* The three entry points side by side *)

\* The createSubscription requests tried next to the confirmations: company 1
\* for its own invoice 1 or the missing invoice 3, the gateway creating the
\* payment or failing.
FrameCreateRequests ==
    [user : {1}, invoiceId : {Num(1), Num(3)},
     gw : {[kind |-> "created", status |-> 0], [kind |-> "error", status |-> 0]}]

NextFrame ==
    \/ \E c \in FrameCreateRequests : CreateSubscription(c.user, c.invoiceId, c.gw)
    \/ \E r \in Reqs, p \in RequestedPaymentIds : CheckPaymentStatus(r, p)
    \/ \E r \in Reqs, w \in WebhookRequests : Webhook(r, w.type, w.action, w.data)
    \/ \E r \in Reqs : PaymentGet(r)
    \/ \E r \in Reqs : FindInvoice(r)
    \/ \E r \in Reqs : FindCompany(r)
    \/ \E r \in Reqs : CompanyUpdate(r)
    \/ \E r \in Reqs : InvoiceUpdate(r)
    \/ \E r \in Reqs : CompanyReload(r)
    \/ \E p \in PaymentIds : GatewayApprove(p)

SpecFrame == Init /\ [][NextFrame]_vars

-----------------------------------------------------------------------------
(* CheckoutSuccess: the poller of the checkout page *)

maxAttempts == 120
MaxInflight == 2
MaxFailed == 2

PollerIdle ==
    UNCHANGED <<zone, now, company, invoice, pay, req, faults, confirmed,
                events, calc, create, hook>>

\* The answers api.get can meet: a body (success with the company, success
\* without it, no success), or a rejection with or without an HTTP status.
PollAnswers ==
    {[code |-> 200, success |-> TRUE,  company |-> TRUE],
     [code |-> 200, success |-> TRUE,  company |-> FALSE],
     [code |-> 200, success |-> FALSE, company |-> FALSE],
     [code |-> 401, success |-> FALSE, company |-> FALSE],
     [code |-> 403, success |-> FALSE, company |-> FALSE],
     [code |-> 500, success |-> FALSE, company |-> FALSE],
     [code |-> 0,   success |-> FALSE, company |-> FALSE]}

\* setIsChecking: a state update of a component that is gone does nothing.
SetIsChecking(p, b) == IF p.mounted THEN [p EXCEPT !.isChecking = b] ELSE p

\* Lines 30-35: the branch if (data.success), up to the line that throws when
\* data.company is missing; attempts++ (line 42) is reached only otherwise.
OnSuccess(p, a) ==
    LET stopped == [SetIsChecking(p, FALSE) EXCEPT !.interval = FALSE] IN
    IF a.company
    THEN [stopped EXCEPT !.toasts = @ \cup {"success"},
                         !.timeouts = @ \cup {"/"},
                         !.attempts = @ + 1]
    ELSE stopped

\* Lines 36-42: the branch else if (attempts >= maxAttempts), and attempts++.
OnNoSuccess(p) ==
    LET q == IF p.attempts >= maxAttempts
             THEN [SetIsChecking(p, FALSE) EXCEPT !.interval = FALSE,
                                                  !.toasts = @ \cup {"info"}]
             ELSE p
    IN  [q EXCEPT !.attempts = @ + 1, !.unsuccessful = @ + 1]

\* Lines 43-50: the catch block.
OnError(p, a) ==
    IF a.code \in {401, 403}
    THEN [p EXCEPT !.toasts = @ \cup {"error"}, !.timeouts = @ \cup {"/login"}]
    ELSE p

\* setInterval(checkPayment, 5000) fires: checkPayment starts and sends its
\* request.
IntervalFires ==
    /\ poller.interval
    /\ poller.inflight < MaxInflight
    /\ poller' = [poller EXCEPT !.inflight = @ + 1]
    /\ PollerIdle

\* The request of one running checkPayment ends with answer a, and
\* checkPayment runs to its end.
Answer(a) ==
    /\ poller.inflight > 0
    /\ a.code # 200 => poller.failed < MaxFailed
    /\ LET p == [poller EXCEPT !.inflight = @ - 1] IN
         poller' = IF a.code # 200
                   THEN [OnError(p, a) EXCEPT !.failed = @ + 1]
                   ELSE IF a.success THEN OnSuccess(p, a)
                   ELSE OnNoSuccess(p)
    /\ PollerIdle

\* A setTimeout of lines 33-35 or 47-49 runs history.push: the page changes
\* and the component unmounts (lines 61-65).
TimeoutFires(target) ==
    /\ target \in poller.timeouts
    /\ poller' = [poller EXCEPT !.timeouts = @ \ {target},
                                !.location = target,
                                !.mounted = FALSE,
                                !.interval = FALSE]
    /\ PollerIdle

\* The user leaves the page: the effect's cleanup, lines 61-65.
Unmount ==
    /\ poller.mounted
    /\ poller' = [poller EXCEPT !.mounted = FALSE, !.interval = FALSE,
                                !.location = "elsewhere"]
    /\ PollerIdle

\* The effect has run: checkPayment was called once and the interval is set
\* (lines 54-58).
InitPoller ==
    /\ poller = [IdlePoller EXCEPT !.mounted = TRUE, !.interval = TRUE,
                                   !.isChecking = TRUE, !.inflight = 1,
                                   !.location = "checkout"]
    /\ zone \in Zones
    /\ now = Now0
    /\ company = InitCompany
    /\ invoice = InitInvoice
    /\ pay = InitPay
    /\ req = [r \in Reqs |-> IdleReq]
    /\ faults = 0
    /\ confirmed = [i \in InvoiceRefs |-> 0]
    /\ events = [i \in InvoiceRefs |-> 0]
    /\ calc = IdleCalc
    /\ create = IdleCreate
    /\ hook = IdleHook

NextPoller ==
    \/ IntervalFires
    \/ \E a \in PollAnswers : Answer(a)
    \/ \E target \in {"/", "/login"} : TimeoutFires(target)
    \/ Unmount

SpecPoller == InitPoller /\ [][NextPoller]_vars

-----------------------------------------------------------------------------
(* Claims *)

Max(a, b) == IF a >= b THEN a ELSE b

Done(r) == req[r].pc = "done"

\* Request r takes a step in which no call throws.
Steps(r) == req'[r] # req[r] /\ faults' = faults

TablesUnchanged == company' = company /\ invoice' = invoice

\* C1: for every invoice, over any sequence and interleaving of poll and
\* webhook requests reporting its payment approved, the confirmation step
\* (extend the due date, set the invoice 'paid') is executed at most once.
C1_ConfirmedAtMostOnce == \A i \in InvoiceRefs : confirmed[i] <= 1

\* C2: no write of checkPaymentStatus or webhook replaces a tenant's due date
\* with an earlier one.
C2_DueDateNeverEarlier ==
    [][\A c \in Companies : company'[c].dueDate >= company[c].dueDate]_vars

\* C3: a confirmation (poll or webhook) that finds the invoice of its approved
\* payment already 'paid' ends there: it reports success and leaves the
\* tenant's due date and the invoice as they are; and a paid invoice stays
\* paid, so every confirmation after the first one finds it so.
C3_PaidInvoiceIsLeftAlone ==
    [][/\ \A i \in InvoiceRefs :
            invoice[i].status = "paid" => invoice'[i].status = "paid"
       /\ \A r \in Reqs :
           (/\ req[r].pc = "findInvoice"
            /\ Steps(r)
            /\ invoice[req[r].ref].exists
            /\ invoice[req[r].ref].status = "paid")
           => (/\ req'[r].pc = "done"
               /\ req'[r].response.code = 200
               /\ req'[r].response.success = "true"
               /\ req'[r].response.status = "approved"
               /\ TablesUnchanged)]_vars

\* C3's case: invoice 1 was confirmed once, and a later poll and a later
\* webhook have both answered "already processed".
C3_Witness ==
    /\ confirmed[1] = 1
    /\ \E r, q \in Reqs :
         /\ Done(r) /\ req[r].kind = "poll"
         /\ Done(q) /\ req[q].kind = "webhook"
         /\ req[r].response = ProcessedResponse("approved")
         /\ req[q].response = ProcessedResponse("approved")

\* C4: the webhook answers every request with the body { ok: true } and
\* HTTP 200, on every path.
C4_WebhookAlwaysAcks ==
    \A r \in Reqs :
        (Done(r) /\ req[r].kind = "webhook") => req[r].response = AckResponse

\* C5: for every due date D and every now N, the date a confirmation writes
\* is max(D, N) + 30 days at calendar-day precision, in both entry points.
C5_NewDueDateIsMaxPlus30 ==
    calc.date # 0 =>
        calc.date = Max(calc.dueDate, ISODate(calc.today)) + ExtensionDays

\* C6, as claimed: an authenticated createSubscription answers 400 to an
\* invoiceId that is 0 or missing, 403 to an existing invoice of another
\* tenant and 404 to an invoiceId no invoice has.
C6_ZeroOrMissingIs400 ==
    (create.pc = "done" /\ create.user # 0) =>
        /\ (create.invoiceId.t \in {"undefined", "null"} \/ create.invoiceId = Num(0))
              => create.code = 400
        /\ (InvoiceFound(create.invoiceId)
              /\ invoice[create.invoiceId.n].companyId # create.user)
              => create.code = 403

\* C6, amended: an authenticated createSubscription answers 400 to an
\* invoiceId that is missing (undefined or null) or not a number; it answers
\* 404 to every number no invoice has, 0 included, and 403 to an existing
\* invoice of another tenant.
C6_MissingIs400ZeroIs404 ==
    (create.pc = "done" /\ create.user # 0) =>
        /\ create.invoiceId.t \in {"undefined", "null", "text"} => create.code = 400
        /\ (create.invoiceId.t \in {"number", "numtext"}
              /\ ~InvoiceFound(create.invoiceId))
              => (create.code = 404 /\ create.error = "Fatura nao encontrada")
        /\ (InvoiceFound(create.invoiceId)
              /\ invoice[create.invoiceId.n].companyId # create.user)
              => create.code = 403

\* C6's case: invoiceId 0 from an authenticated caller, answered 404.
C6_Witness ==
    /\ create.pc = "done" /\ create.user # 0
    /\ create.invoiceId = Num(0)
    /\ create.code = 404

\* C7: createSubscription answers with the error of the first failing check,
\* in the order authentication (401), invoiceId present (400), invoice exists
\* (404), invoice is the caller's (403), tenant exists (404), plan exists
\* (404), value positive (400), and calls the gateway only when all pass.
C7_FirstFailingCheckAnswers ==
    create.pc = "done" =>
        LET v == create.invoiceId
            u == create.user
            p1 == u # 0
            p2 == p1 /\ v.t \in {"number", "numtext"}
            p3 == p2 /\ v.n \in InvoiceRefs /\ invoice[v.n].exists
            p4 == p3 /\ invoice[v.n].companyId = u
            p5 == p4 /\ company[u].exists
            p6 == p5 /\ company[u].planId \in Plans
            p7 == p6 /\ ~ToNumber(invoice[v.n].value).nan
                     /\ ToNumber(invoice[v.n].value).n > 0
            answer == <<create.code, create.error>>
        IN  /\ ~p1 => answer = <<401, "Usuario nao autenticado">>
            /\ (p1 /\ ~p2) => answer = <<400, "ID da fatura e obrigatorio">>
            /\ (p2 /\ ~p3) => answer = <<404, "Fatura nao encontrada">>
            /\ (p3 /\ ~p4) => answer = <<403, "Fatura nao pertence a empresa">>
            /\ (p4 /\ ~p5) => answer = <<404, "Empresa nao encontrada">>
            /\ (p5 /\ ~p6) => answer = <<404, "Plano nao encontrado">>
            /\ (p6 /\ ~p7) => answer =
                    <<400, "Valor da fatura invalido ou menor/igual a zero">>
            /\ create.calls = (IF p7 THEN 1 ELSE 0)

\* C7's case: two checks fail at once (the invoice is another tenant's and the
\* caller's own company is gone) and the earlier one, 403, answers.
C7_Witness ==
    /\ create.pc = "done" /\ create.user # 0
    /\ ~company[create.user].exists
    /\ InvoiceFound(create.invoiceId)
    /\ invoice[create.invoiceId.n].companyId # create.user
    /\ create.code = 403

\* C8: the event company-{id}-payment is emitted only by the webhook, only by
\* a request that itself moved the invoice from pending to paid, only after
\* both writes, and once per invoice.
C8_OneEventByTheConfirmingWebhook ==
    [][\A i \in InvoiceRefs :
         events'[i] # events[i] =>
            /\ events'[i] = 1
            /\ invoice[i].status = "paid"
            /\ \E r \in Reqs :
                 /\ req[r].kind = "webhook" /\ req[r].ref = i
                 /\ req[r].pc = "reload" /\ req'[r].pc = "done"
                 /\ req[r].moved]_vars

\* C9: after 120 cycles answered without success the poller is expired: it
\* no longer checks and its interval is cleared.
C9_ExpiredAfter120 ==
    (poller.mounted /\ poller.unsuccessful >= maxAttempts) =>
        (~poller.isChecking /\ ~poller.interval /\ "info" \in poller.toasts)

\* The poll r is about to take the step that finds nothing to confirm: the
\* gateway status is not 'approved', or the invoice of an approved payment,
\* or that invoice's company, does not exist.  GatewayStatus is the status
\* the request has read or is reading.
NothingToConfirm(r) ==
    \/ /\ req[r].pc = "get"
       /\ req[r].paymentId \in PaymentIds
       /\ pay[req[r].paymentId].status # "approved"
    \/ req[r].pc = "findInvoice" /\ ~invoice[req[r].ref].exists
    \/ req[r].pc = "findCompany" /\ ~company[req[r].companyId].exists

GatewayStatus(r) ==
    IF req[r].pc = "get" THEN pay[req[r].paymentId].status ELSE req[r].status

\* C10: checkPaymentStatus answers { status, success: false } and changes no
\* invoice and no company when the gateway status is not 'approved', and when
\* it is but the invoice of the external reference, or its company, does not
\* exist; nothing is written before that answer either.
C10_PollWithoutConfirmation ==
    [][\A r \in Reqs :
         (req[r].kind = "poll" /\ Steps(r)) =>
            /\ NothingToConfirm(r) =>
                 /\ req'[r].pc = "done"
                 /\ req'[r].response = NotApprovedResponse(GatewayStatus(r))
                 /\ TablesUnchanged
            /\ req[r].pc \in {"idle", "done", "get", "findInvoice", "findCompany"}
                 => TablesUnchanged]_vars

\* C10's case: polls have answered { status: "approved", success: false } for
\* a payment whose invoice or company is missing, and { status: "rejected",
\* success: false }.
C10_Witness ==
    \E r, q \in Reqs :
        /\ Done(r) /\ req[r].kind = "poll"
        /\ req[r].response = NotApprovedResponse("approved")
        /\ Done(q) /\ req[q].kind = "poll"
        /\ req[q].response = NotApprovedResponse("rejected")

\* A checkPayment cycle ends in this step with a body whose success is true:
\* a request leaves the flight and is counted neither as unsuccessful nor as
\* failed.
SuccessAnswered ==
    /\ poller'.inflight < poller.inflight
    /\ poller'.unsuccessful = poller.unsuccessful
    /\ poller'.failed = poller.failed

\* C11: every status answer with success true, with or without the tenant in
\* it, leaves the poller confirmed: the interval is cleared, the success
\* notice is shown and the redirect to "/" is scheduled.
C11_SuccessAnswerConfirms ==
    [][SuccessAnswered =>
          /\ ~poller'.interval
          /\ "success" \in poller'.toasts
          /\ "/" \in poller'.timeouts]_vars

\* C12: the attempt counter is incremented on every cycle, the cycles whose
\* status request fails included.
C12_AttemptsCountErrorCycles ==
    [][poller'.failed > poller.failed =>
          poller'.attempts = poller.attempts + 1]_vars

\* The poller is confirmed, expired or auth-failed, or the page is gone.
Terminal ==
    \/ ~poller.mounted
    \/ poller.toasts \cap {"success", "info", "error"} # {}

\* C13: once the poller is confirmed, expired or auth-failed, or the component
\* has unmounted, no further status request is started.
C13_NoRequestAfterTerminal ==
    [][Terminal => poller'.inflight <= poller.inflight]_vars

\* C14: the poller never has two status requests in flight.
C14_OneRequestInFlight == poller.inflight <= 1

\* C16: a tenant's due date is never left extended for an invoice that is
\* still 'pending': it differs from the date before the confirmation only
\* while a request stands between its two updates.
C16_NoExtensionForPendingInvoice ==
    \A i \in InvoiceRefs :
        LET c == invoice[i].companyId IN
        (/\ invoice[i].exists
         /\ invoice[i].status = "pending"
         /\ company[c].exists
         /\ company[c].dueDate # InitCompany[c].dueDate)
        => \E r \in Reqs : req[r].pc = "updateInvoice" /\ req[r].ref = i

\* The webhook does not handle notification w.
Ignored(w) ==
    \/ w.type # "mercadopago"
    \/ w.action \notin {"payment.updated", "payment.created"}

\* C15: a webhook request whose type is not 'mercadopago', or whose action is
\* neither 'payment.updated' nor 'payment.created', is answered { ok: true }
\* on arrival: it never stands at the gateway query or at any later step, and
\* its arrival changes no invoice, no tenant and no payment and emits no event.
C15_IgnoredWebhookOnlyAcks ==
    [][\A r \in Reqs :
         (hook'[r] # NoHook /\ Ignored(hook'[r])) =>
            /\ req'[r].pc = "done"
            /\ req'[r].response = AckResponse
            /\ (hook'[r] # hook[r] \/ req'[r] # req[r]) =>
                 /\ TablesUnchanged
                 /\ pay' = pay
                 /\ events' = events
                 /\ confirmed' = confirmed]_vars

\* C15's case: a notification of another gateway and a 'payment.deleted'
\* notification of this one, both about an approved payment, were answered,
\* while the invoice of approved payment 1 is there to be confirmed.
C15_Witness ==
    \E r, q \in Reqs :
        /\ hook[r].type = "stripe" /\ hook[r].action = "payment.updated"
        /\ hook[r].data.id = 2 /\ Done(r)
        /\ hook[q].type = "mercadopago" /\ hook[q].action = "payment.deleted"
        /\ hook[q].data.id = 2 /\ Done(q)
        /\ pay[1].status = "approved"

\* The invoice named by the external reference of the payment request r is
\* about (0: the payment is unknown).
NamedInvoice(r) ==
    IF req[r].paymentId \in PaymentIds THEN pay[req[r].paymentId].ref ELSE 0

\* C17: a step changes an invoice only as the invoice.update of a
\* confirmation whose payment names it, and a tenant only as the
\* company.update of a confirmation whose payment names an invoice of that
\* tenant; a createSubscription request changes no invoice and no tenant.
C17_OnlyNamedInvoiceAndTenant ==
    [][/\ \A i \in InvoiceRefs :
            invoice'[i] # invoice[i] =>
                \E r \in Reqs : /\ req[r].pc = "updateInvoice"
                                /\ req'[r].pc = "reload"
                                /\ NamedInvoice(r) = i
       /\ \A c \in Companies :
            company'[c] # company[c] =>
                \E r \in Reqs : /\ req[r].pc = "updateCompany"
                                /\ req'[r].pc = "updateInvoice"
                                /\ NamedInvoice(r) \in InvoiceRefs
                                /\ invoice[NamedInvoice(r)].companyId = c
       /\ create' # create => TablesUnchanged]_vars

\* C17's case: a createSubscription request has called the gateway, a poll
\* and a webhook have ended, invoice 1 is paid and tenant 1 extended, and
\* tenant 2 and invoice 2 are as they were.
C17_Witness ==
    /\ create.pc = "done" /\ create.calls = 1
    /\ \E r, q \in Reqs : /\ Done(r) /\ req[r].kind = "poll"
                          /\ Done(q) /\ req[q].kind = "webhook"
    /\ invoice[1].status = "paid"
    /\ company[1].dueDate # InitCompany[1].dueDate
    /\ company[2] = InitCompany[2]
    /\ invoice[2] = InitInvoice[2]

=============================================================================
